---- MODULE Spec2Model ----
(***************************************************************************)
(* The streaming chat endpoint of src/app/api/chat/stream/route.ts (POST,  *)
(* sendSSEMessage) and the persistence client of src/lib/convex.ts         *)
(* (getConvexClient), as a state machine.  One request is handled at a     *)
(* time; the module-level cachedClient survives from one request to the    *)
(* next.  The platform objects the handler uses (the TransformStream       *)
(* writer, auth(), req.json(), convex.mutation, submitQuestion and the     *)
(* agent's event iterator) are the environment: each of their outcomes is  *)
(* drawn with \E where the handler awaits it.                              *)
(***************************************************************************)
EXTENDS Naturals, Sequences, FiniteSets

VARIABLES
    method,        \* the HTTP method of the request being handled
    pc,            \* where the handler (or its detached streaming task) stands
    convexUrl,     \* process.env.NEXT_PUBLIC_CONVEX_URL: unset, invalid or valid
    userId,        \* what auth() resolved to (NONE = no caller identity)
    cachedClient,  \* convex.ts: the module-level cached client (FALSE = null)
    requestBody,   \* the parsed body: messages, newMessage, chatId
    response,      \* what POST returned: status and whether it carries the stream
    sink,          \* the writable half: "open", or "errored" once the peer is gone
    writerOps,     \* every call made on the writer, in order, with its outcome
    dbCalls,       \* every convex.mutation call, in order, with its outcome
    agentCalls,    \* every submitQuestion call: messages and chat identifier
    consumed,      \* the agent events pulled from the event stream so far
    thrown,        \* the exception a catch block is handling
    escaped        \* TRUE when the streaming task ended with an uncaught exception

vars == <<method, pc, convexUrl, userId, cachedClient, requestBody, response, sink, writerOps, dbCalls,
          agentCalls, consumed, thrown, escaped>>

----------------------------------------------------------------------------
(* Bounds *)

\* history entries plus agent events of one turn
MaxInput == 2

----------------------------------------------------------------------------
(* Values *)

\* JavaScript undefined / a missing field
NONE == "<undefined>"
\* a value JSON.stringify throws on (a cycle, a BigInt)
CIRC == "<circular>"

Truthy(v) == v \notin {NONE, ""}

Err(msg) == [isError |-> TRUE, message |-> msg]
NonError == [isError |-> FALSE, message |-> NONE]
NoError == [isError |-> FALSE, message |-> "<none>"]
\* what a write or close on an errored writable rejects with
TransportClosed == Err("transport closed")
\* what the agent (submitQuestion or its iterator) may throw
AgentErrors == {Err("agent failed"), Err(""), NonError}

\* Protocol envelopes (StreamMessage), one record shape for all types
Envelope(type, tool, data) == [type |-> type, tool |-> tool, data |-> data]
Connected == Envelope("connected", NONE, NONE)
Done == Envelope("done", NONE, NONE)
Token(text) == Envelope("token", NONE, text)
ToolStart(tool, input) == Envelope("tool-start", tool, input)
ToolEnd(tool, output) == Envelope("tool-end", tool, output)
ErrorEnv(msg) == Envelope("error", NONE, msg)

\* Chunk contents: a bare string, a sequence of parts, or neither
NoChunk == [present |-> FALSE, t |-> NONE, s |-> NONE, parts |-> <<>>]
StrChunk(s) == [present |-> TRUE, t |-> "string", s |-> s, parts |-> <<>>]
ArrChunk(parts) == [present |-> TRUE, t |-> "array", s |-> NONE, parts |-> parts]
OtherChunk == [present |-> TRUE, t |-> "other", s |-> NONE, parts |-> <<>>]
\* a content part: an object with a text field (v), or a bare string (v)
ObjPart(text) == [obj |-> TRUE, v |-> text]
StrPart(s) == [obj |-> FALSE, v |-> s]

\* Tool outputs: absent, or a value whose name field is name (NONE for a
\* plain string), whose wire form is v, and on which ToolMessage may throw
NoOutput == [present |-> FALSE, name |-> NONE, v |-> NONE, ctorOk |-> TRUE]
Output(name, v, ctorOk) == [present |-> TRUE, name |-> name, v |-> v, ctorOk |-> ctorOk]

Ev(kind, name, chunk, input, output) ==
    [event |-> kind, name |-> name, chunk |-> chunk, input |-> input, output |-> output]
NullEvent == Ev("<null>", NONE, NoChunk, NONE, NoOutput)
ChatEv(chunk) == Ev("on_chat_model_stream", NONE, chunk, NONE, NoOutput)
ToolStartEv(name, input) == Ev("on_tool_start", name, NoChunk, input, NoOutput)
ToolEndEv(output) == Ev("on_tool_end", NONE, NoChunk, NONE, output)
OtherEv == Ev("on_chain_end", NONE, NoChunk, NONE, NoOutput)

ChatEvents ==
    { ChatEv(NoChunk), ChatEv(OtherChunk),
      ChatEv(StrChunk("a")), ChatEv(StrChunk("")),
      ChatEv(ArrChunk(<<>>)),
      ChatEv(ArrChunk(<<ObjPart("b"), ObjPart("z")>>)),
      ChatEv(ArrChunk(<<ObjPart("")>>)),
      ChatEv(ArrChunk(<<ObjPart(NONE)>>)),
      ChatEv(ArrChunk(<<StrPart("c")>>)) }
ToolStartEvents ==
    { ToolStartEv("search", "in1"), ToolStartEv(NONE, "in1"),
      ToolStartEv("search", NONE), ToolStartEv("search", CIRC) }
ToolEndEvents ==
    { ToolEndEv(NoOutput), ToolEndEv(Output(NONE, "out1", TRUE)),
      ToolEndEv(Output("search", "out2", TRUE)),
      ToolEndEv(Output(NONE, CIRC, TRUE)),
      ToolEndEv(Output(NONE, "out3", FALSE)) }
AgentEvents == ChatEvents \cup ToolStartEvents \cup ToolEndEvents \cup {NullEvent, OtherEv}

\* Request bodies
Msg(role, content) == [role |-> role, content |-> content]
HistoryEntries == {Msg("user", "q"), Msg("assistant", "r"), Msg("system", "s")}
RECURSIVE SeqsUpTo(_, _)
SeqsUpTo(S, n) ==
    IF n = 0 THEN {<<>>}
    ELSE LET shorter == SeqsUpTo(S, n - 1)
         IN shorter \cup {Append(s, x) : s \in {t \in shorter : Len(t) = n - 1}, x \in S}
Body(parsed, isObject, isArray, items) ==
    [parsed |-> parsed, isObject |-> isObject,
     messages |-> [isArray |-> isArray, items |-> items],
     newMessage |-> "hello", chatId |-> "chat1"]
NoBody == Body(FALSE, FALSE, FALSE, <<>>)
Bodies ==
    {NoBody, Body(TRUE, FALSE, FALSE, <<>>), Body(TRUE, TRUE, FALSE, <<>>)}
    \cup {Body(TRUE, TRUE, TRUE, h) : h \in SeqsUpTo(HistoryEntries, MaxInput)}

NoResponse == [status |-> 0, streaming |-> FALSE, error |-> NONE]
JsonResponse(status, msg) == [status |-> status, streaming |-> FALSE, error |-> msg]
StreamResponse == [status |-> 200, streaming |-> TRUE, error |-> NONE]

----------------------------------------------------------------------------
(* Pure helpers of the handler *)

\* `e instanceof Error ? e.message : fallback`
errorMessage(e, fallback) == IF e.isError THEN e.message ELSE fallback

\* JSON.stringify(data) succeeds
Serializable(env) == env.data # CIRC

\* sendSSEMessage: the writer's log after the call.  A payload that cannot be
\* serialized throws inside the try and never reaches writer.write.
\* sendSSEMessage writing a frame even when the payload cannot be serialized
sendSSEMessage_WritesAnyway(ops, env) ==
    Append(ops, [op |-> "write", env |-> env, ok |-> (sink = "open")])

sendSSEMessage(ops, env) ==
    IF Serializable(env)
    THEN Append(ops, [op |-> "write", env |-> env, ok |-> (sink = "open")])
    ELSE ops

\* sendSSEMessage's promise rejects: writer.write was called on an errored writable
sendRejects(env) == Serializable(env) /\ sink # "open"

\* TranslateChat without the test of the first part's text
TranslateChat_NoTextTest(ev) ==
    LET token == ev.chunk
    IN IF ~token.present THEN <<>>
       ELSE IF token.t = "string" THEN <<Token(token.s)>>
       ELSE IF token.t = "array" /\ Len(token.parts) > 0
            THEN <<Token(token.parts[1].v)>>
       ELSE <<>>

\* The envelopes (none or one) the drain loop sends for one agent event
TranslateChat(ev) ==
    LET token == ev.chunk
    IN IF ~token.present THEN <<>>
       ELSE IF token.t = "string" THEN <<Token(token.s)>>
       ELSE IF token.t = "array"
            THEN IF Len(token.parts) > 0
                 THEN LET text == token.parts[1].v
                      IN IF Truthy(text) THEN <<Token(text)>> ELSE <<>>
                 ELSE <<>>
       ELSE <<>>

\* TranslateToolStart testing the name alone
TranslateToolStart_NameOnly(ev) ==
    IF Truthy(ev.name) THEN <<ToolStart(ev.name, ev.input)>> ELSE <<>>

TranslateToolStart(ev) ==
    IF Truthy(ev.name) /\ Truthy(ev.input)
    THEN <<ToolStart(ev.name, ev.input)>>
    ELSE <<>>

\* new ToolMessage(output) throws: caught by the branch's own try/catch
ToolMessageThrows(ev) == ev.output.present /\ ~ev.output.ctorOk

\* TranslateToolEnd taking the tool name from the event, not from the tool message
TranslateToolEnd_EventName(ev) ==
    IF ev.output.present /\ ~ToolMessageThrows(ev)
    THEN LET toolName == IF Truthy(ev.name) THEN ev.name ELSE "unknown"
         IN <<ToolEnd(toolName, ev.output.v)>>
    ELSE <<>>

TranslateToolEnd(ev) ==
    IF ev.output.present /\ ~ToolMessageThrows(ev)
    THEN LET toolName == IF Truthy(ev.output.name) THEN ev.output.name ELSE "unknown"
         IN <<ToolEnd(toolName, ev.output.v)>>
    ELSE <<>>

\* Translate letting events of other kinds through as tokens
Translate_ForwardsUnknown(ev) ==
    IF ev = NullEvent THEN <<>>
    ELSE IF ev.event = "on_chat_model_stream" THEN TranslateChat(ev)
    ELSE IF ev.event = "on_tool_start" THEN TranslateToolStart(ev)
    ELSE IF ev.event = "on_tool_end" THEN TranslateToolEnd(ev)
    ELSE <<Token(ev.event)>>

Translate(ev) ==
    IF ev = NullEvent THEN <<>>
    ELSE IF ev.event = "on_chat_model_stream" THEN TranslateChat(ev)
    ELSE IF ev.event = "on_tool_start" THEN TranslateToolStart(ev)
    ELSE IF ev.event = "on_tool_end" THEN TranslateToolEnd(ev)
    ELSE <<>>

\* the on_tool_end branch without its try/catch around the send
SwallowsSendFailure_Never(ev) == FALSE

\* the on_tool_end branch wraps its send in try/catch: a rejected write is swallowed
SwallowsSendFailure(ev) == ev.event = "on_tool_end"

\* messages.map(...) followed by new HumanMessage(newMessage)
LangChainRole(msg) == IF msg.role = "user" THEN "human" ELSE "ai"
\* langChainMessages with the new message put first
langChainMessages_NewFirst(body) ==
    <<[type |-> "human", content |-> body.newMessage]>>
    \o [i \in 1..Len(body.messages.items) |->
          [type |-> LangChainRole(body.messages.items[i]),
           content |-> body.messages.items[i].content]]

langChainMessages(body) ==
    [i \in 1..Len(body.messages.items) |->
        [type |-> LangChainRole(body.messages.items[i]),
         content |-> body.messages.items[i].content]]
    \o <<[type |-> "human", content |-> body.newMessage]>>

\* getConvexClient without the check that the URL is configured
getConvexClient_NoUrlCheck(cached, url) ==
    IF cached \/ url # "invalid" THEN [ok |-> TRUE, error |-> NoError]
    ELSE [ok |-> FALSE, error |-> Err("Failed to initialize Convex client")]

\* getConvexClient: the client is returned (ok) or an Error is thrown; the
\* ConvexHttpClient constructor throws on a URL it cannot use
getConvexClient(cached, url) ==
    IF cached THEN [ok |-> TRUE, error |-> NoError]
    ELSE IF url = NONE THEN [ok |-> FALSE, error |-> Err("Convex URL is not configured")]
    ELSE IF url = "valid" THEN [ok |-> TRUE, error |-> NoError]
    ELSE [ok |-> FALSE, error |-> Err("Failed to initialize Convex client")]

\* convex.mutation calls
SendCall(body, ok) ==
    [fn |-> "messages.send", chatId |-> body.chatId, content |-> <<body.newMessage>>,
     role |-> NONE, ok |-> ok]
StoreCall(body, msg, ok) ==
    [fn |-> "messages.store", chatId |-> body.chatId,
     content |-> <<"Error processing message: ", msg>>, role |-> "assistant", ok |-> ok]

CloseOp == [op |-> "close", env |-> Envelope(NONE, NONE, NONE), ok |-> (sink = "open")]

----------------------------------------------------------------------------
(* The state machine *)

Init ==
    /\ method = "<none>"
    /\ pc = "start"
    /\ convexUrl \in {NONE, "invalid", "valid"}
    /\ userId = "<unset>"
    /\ cachedClient = FALSE
    /\ requestBody = NoBody
    /\ response = NoResponse
    /\ sink = "none"
    /\ writerOps = <<>>
    /\ dbCalls = <<>>
    /\ agentCalls = <<>>
    /\ consumed = <<>>
    /\ thrown = NoError
    /\ escaped = FALSE

\* POST returns a non-stream response
Respond(status, msg) ==
    /\ response' = JsonResponse(status, msg)
    /\ pc' = "finished"

\* GET answering with an empty 200
GET_Ok ==
    /\ pc = "start"
    /\ method' = "GET"
    /\ response' = [status |-> 200, streaming |-> FALSE, error |-> NONE]
    /\ pc' = "finished"
    /\ UNCHANGED <<convexUrl, userId, cachedClient, requestBody, sink, writerOps,
                   dbCalls, agentCalls, consumed, thrown, escaped>>

\* line 22-31: GET returns 405 with the body {error: "Method not allowed"}
GET ==
    /\ pc = "start"
    /\ method' = "GET"
    /\ Respond(405, "Method not allowed")
    /\ UNCHANGED <<convexUrl, userId, cachedClient, requestBody, sink, writerOps,
                   dbCalls, agentCalls, consumed, thrown, escaped>>

\* line 34-44: OPTIONS answers the preflight with an empty 200
OPTIONS ==
    /\ pc = "start"
    /\ method' = "OPTIONS"
    /\ response' = [status |-> 200, streaming |-> FALSE, error |-> NONE]
    /\ pc' = "finished"
    /\ UNCHANGED <<convexUrl, userId, cachedClient, requestBody, sink, writerOps,
                   dbCalls, agentCalls, consumed, thrown, escaped>>

\* POST_Auth without the early return for a missing userId
POST_Auth_NoReturn ==
    /\ pc = "start"
    /\ method' = "POST"
    /\ \E id \in {"user1", NONE} : userId' = id
    /\ pc' = "parse"
    /\ UNCHANGED <<convexUrl, cachedClient, requestBody, response, sink, writerOps,
                   dbCalls, agentCalls, consumed, thrown, escaped>>

\* line 70-81: await auth()
POST_Auth ==
    /\ pc = "start"
    /\ method' = "POST"
    /\ \/ /\ userId' = "user1"
          /\ pc' = "parse"
          /\ UNCHANGED response
       \/ /\ userId' = NONE
          /\ Respond(401, "Unauthorized")
       \/ /\ \E e \in {Err("auth failed"), NonError} :
               Respond(500, errorMessage(e, "Failed to process chat request"))
          /\ UNCHANGED userId
    /\ UNCHANGED <<convexUrl, cachedClient, requestBody, sink, writerOps, dbCalls,
                   agentCalls, consumed, thrown, escaped>>

\* line 83-143: await req.json(), destructure, get the client, open the stream,
\* return the response; the detached task runs up to its first await
POST_Open ==
    /\ pc = "parse"
    /\ \E body \in Bodies :
         LET got == getConvexClient(cachedClient, convexUrl)
         IN /\ requestBody' = body
            /\ IF ~body.parsed
               THEN /\ Respond(400, "Invalid request body")
                    /\ UNCHANGED <<cachedClient, sink>>
               ELSE IF ~body.isObject
               THEN /\ Respond(500, "Cannot destructure property 'messages'")
                    /\ UNCHANGED <<cachedClient, sink>>
               ELSE IF ~got.ok
               THEN /\ Respond(500, "Failed to initialize database connection")
                    /\ UNCHANGED <<cachedClient, sink>>
               ELSE /\ cachedClient' = TRUE
                    /\ sink' = "open"
                    /\ response' = StreamResponse
                    /\ pc' = "sendConnected"
    /\ UNCHANGED <<method, convexUrl, userId, writerOps, dbCalls, agentCalls, consumed,
                   thrown, escaped>>

\* line 143: await sendSSEMessage(writer, connected)
SendConnected ==
    /\ pc = "sendConnected"
    /\ writerOps' = sendSSEMessage(writerOps, Connected)
    /\ IF sendRejects(Connected)
       THEN /\ thrown' = TransportClosed
            /\ pc' = "outerCatch"
       ELSE /\ pc' = "appendUser"
            /\ UNCHANGED thrown
    /\ UNCHANGED <<method, convexUrl, userId, cachedClient, requestBody, response, sink,
                   dbCalls, agentCalls, consumed, escaped>>

\* AppendUser without its try/catch: a failed mutation reaches the outer catch
AppendUser_Fatal ==
    /\ pc = "appendUser"
    /\ \E ok \in BOOLEAN :
         /\ dbCalls' = Append(dbCalls, SendCall(requestBody, ok))
         /\ IF ok
            THEN pc' = "submit" /\ UNCHANGED thrown
            ELSE pc' = "outerCatch" /\ thrown' = Err("convex failed")
    /\ UNCHANGED <<method, convexUrl, userId, cachedClient, requestBody, response, sink,
                   writerOps, agentCalls, consumed, escaped>>

\* line 146-159: await convex.mutation(api.messages.send, ...), failure swallowed
AppendUser ==
    /\ pc = "appendUser"
    /\ \E ok \in BOOLEAN : dbCalls' = Append(dbCalls, SendCall(requestBody, ok))
    /\ pc' = "submit"
    /\ UNCHANGED <<method, convexUrl, userId, cachedClient, requestBody, response, sink,
                   writerOps, agentCalls, consumed, thrown, escaped>>

\* line 162-177: build langChainMessages, await submitQuestion(...)
SubmitQuestion ==
    /\ pc = "submit"
    /\ IF ~requestBody.messages.isArray
       THEN /\ thrown' = Err("messages.map is not a function")
            /\ pc' = "outerCatch"
            /\ UNCHANGED agentCalls
       ELSE /\ agentCalls' = Append(agentCalls,
                [messages |-> langChainMessages(requestBody), chatId |-> requestBody.chatId])
            /\ \/ /\ pc' = "drain"
                  /\ UNCHANGED thrown
               \/ /\ thrown' = Err("Failed to create event stream")
                  /\ pc' = "streamError"
               \/ \E e \in AgentErrors :
                    /\ thrown' = e
                    /\ pc' = "streamError"
    /\ UNCHANGED <<method, convexUrl, userId, cachedClient, requestBody, response, sink,
                   writerOps, dbCalls, consumed, escaped>>

\* line 180-233: one iteration of for await: the next event, and its branch
DrainEvent ==
    /\ pc = "drain"
    /\ Len(requestBody.messages.items) + Len(consumed) < MaxInput
    /\ \E ev \in AgentEvents :
         LET out == Translate(ev)
         IN /\ consumed' = Append(consumed, ev)
            /\ IF out = <<>>
               THEN UNCHANGED <<writerOps, thrown, pc>>
               ELSE /\ writerOps' = sendSSEMessage(writerOps, out[1])
                    /\ IF sendRejects(out[1]) /\ ~SwallowsSendFailure(ev)
                       THEN /\ thrown' = TransportClosed
                            /\ pc' = "streamError"
                       ELSE UNCHANGED <<thrown, pc>>
    /\ UNCHANGED <<method, convexUrl, userId, cachedClient, requestBody, response, sink,
                   dbCalls, agentCalls, escaped>>

\* DrainRaise treating an iterator failure as the end of the stream
DrainRaise_AsEnd ==
    /\ pc = "drain"
    /\ \E e \in AgentErrors : thrown' = e
    /\ pc' = "sendDone"
    /\ UNCHANGED <<method, convexUrl, userId, cachedClient, requestBody, response, sink,
                   writerOps, dbCalls, agentCalls, consumed, escaped>>

\* line 180: the event iterator throws
DrainRaise ==
    /\ pc = "drain"
    /\ \E e \in AgentErrors : thrown' = e
    /\ pc' = "streamError"
    /\ UNCHANGED <<method, convexUrl, userId, cachedClient, requestBody, response, sink,
                   writerOps, dbCalls, agentCalls, consumed, escaped>>

\* line 180: the event iterator is exhausted
DrainEnd ==
    /\ pc = "drain"
    /\ pc' = "sendDone"
    /\ UNCHANGED <<method, convexUrl, userId, cachedClient, requestBody, response, sink,
                   writerOps, dbCalls, agentCalls, consumed, thrown, escaped>>

\* SendDone outside any try: a rejected write ends the task, nothing closes
SendDone_Uncaught ==
    /\ pc = "sendDone"
    /\ writerOps' = sendSSEMessage(writerOps, Done)
    /\ IF sendRejects(Done)
       THEN /\ thrown' = TransportClosed
            /\ escaped' = TRUE
            /\ pc' = "finished"
       ELSE /\ pc' = "close"
            /\ UNCHANGED <<thrown, escaped>>
    /\ UNCHANGED <<method, convexUrl, userId, cachedClient, requestBody, response, sink,
                   dbCalls, agentCalls, consumed>>

\* SendDone that also stores the completed reply as an assistant message
SendDone_StoresReply ==
    /\ pc = "sendDone"
    /\ writerOps' = sendSSEMessage(writerOps, Done)
    /\ IF sendRejects(Done)
       THEN /\ thrown' = TransportClosed
            /\ pc' = "streamError"
            /\ UNCHANGED dbCalls
       ELSE /\ pc' = "close"
            /\ dbCalls' = Append(dbCalls, StoreCall(requestBody, "done", TRUE))
            /\ UNCHANGED thrown
    /\ UNCHANGED <<method, convexUrl, userId, cachedClient, requestBody, response, sink,
                   agentCalls, consumed, escaped>>

\* line 236: await sendSSEMessage(writer, done)
SendDone ==
    /\ pc = "sendDone"
    /\ writerOps' = sendSSEMessage(writerOps, Done)
    /\ IF sendRejects(Done)
       THEN /\ thrown' = TransportClosed
            /\ pc' = "streamError"
       ELSE /\ pc' = "close"
            /\ UNCHANGED thrown
    /\ UNCHANGED <<method, convexUrl, userId, cachedClient, requestBody, response, sink,
                   dbCalls, agentCalls, consumed, escaped>>

\* StreamErrorSend without its try/catch: a rejected error write reaches the outer catch
StreamErrorSend_Unguarded ==
    /\ pc = "streamError"
    /\ writerOps' = sendSSEMessage(writerOps,
                        ErrorEnv(errorMessage(thrown, "Stream processing failed")))
    /\ pc' = IF sink # "open" THEN "outerCatch" ELSE "storeError"
    /\ UNCHANGED <<method, convexUrl, userId, cachedClient, requestBody, response, sink,
                   dbCalls, agentCalls, consumed, thrown, escaped>>

\* line 237-256: catch (streamError): send the error envelope, failure swallowed
StreamErrorSend ==
    /\ pc = "streamError"
    /\ writerOps' = sendSSEMessage(writerOps,
                        ErrorEnv(errorMessage(thrown, "Stream processing failed")))
    /\ pc' = "storeError"
    /\ UNCHANGED <<method, convexUrl, userId, cachedClient, requestBody, response, sink,
                   dbCalls, agentCalls, consumed, thrown, escaped>>

\* StoreError falling through to the completion message
StoreError_FallsThrough ==
    /\ pc = "storeError"
    /\ \E ok \in BOOLEAN :
         dbCalls' = Append(dbCalls,
             StoreCall(requestBody, errorMessage(thrown, "Stream processing failed"), ok))
    /\ pc' = "sendDone"
    /\ UNCHANGED <<method, convexUrl, userId, cachedClient, requestBody, response, sink,
                   writerOps, agentCalls, consumed, thrown, escaped>>

\* line 258-271: store the error as an assistant message, failure swallowed
StoreError ==
    /\ pc = "storeError"
    /\ \E ok \in BOOLEAN :
         dbCalls' = Append(dbCalls,
             StoreCall(requestBody, errorMessage(thrown, "Stream processing failed"), ok))
    /\ pc' = "close"
    /\ UNCHANGED <<method, convexUrl, userId, cachedClient, requestBody, response, sink,
                   writerOps, agentCalls, consumed, thrown, escaped>>

\* line 273-291: the outer catch: send the error envelope, failure swallowed
OuterCatchSend ==
    /\ pc = "outerCatch"
    /\ writerOps' = sendSSEMessage(writerOps, ErrorEnv(errorMessage(thrown, "Unknown error")))
    /\ pc' = "close"
    /\ UNCHANGED <<method, convexUrl, userId, cachedClient, requestBody, response, sink,
                   dbCalls, agentCalls, consumed, thrown, escaped>>

\* CloseWriter closing only a writer that is still healthy
CloseWriter_OnlyIfOpen ==
    /\ pc = "close"
    /\ writerOps' = IF sink = "open" THEN Append(writerOps, CloseOp) ELSE writerOps
    /\ escaped' = FALSE
    /\ pc' = "finished"
    /\ UNCHANGED <<method, convexUrl, userId, cachedClient, requestBody, response, sink,
                   dbCalls, agentCalls, consumed, thrown>>

\* line 292-300: finally: await writer.close(), failure swallowed
CloseWriter ==
    /\ pc = "close"
    /\ writerOps' = Append(writerOps, CloseOp)
    /\ escaped' = FALSE
    /\ pc' = "finished"
    /\ UNCHANGED <<method, convexUrl, userId, cachedClient, requestBody, response, sink,
                   dbCalls, agentCalls, consumed, thrown>>

\* The peer goes away: the readable half is cancelled, which errors the writable half
ClientDisconnect ==
    /\ sink = "open"
    /\ pc \notin {"finished"}
    /\ sink' = "errored"
    /\ UNCHANGED <<method, pc, convexUrl, userId, cachedClient, requestBody, response,
                   writerOps, dbCalls, agentCalls, consumed, thrown, escaped>>

\* The next request arrives; only the module-level cachedClient is kept
NextRequest ==
    /\ pc = "finished"
    /\ pc' = "start"
    /\ userId' = "<unset>"
    /\ requestBody' = NoBody
    /\ response' = NoResponse
    /\ sink' = "none"
    /\ writerOps' = <<>>
    /\ dbCalls' = <<>>
    /\ agentCalls' = <<>>
    /\ consumed' = <<>>
    /\ thrown' = NoError
    /\ escaped' = FALSE
    /\ method' = "<none>"
    /\ UNCHANGED <<convexUrl, cachedClient>>

TurnStep ==
    \/ GET
    \/ OPTIONS
    \/ POST_Auth
    \/ POST_Open
    \/ SendConnected
    \/ AppendUser
    \/ SubmitQuestion
    \/ DrainEvent
    \/ DrainRaise
    \/ DrainEnd
    \/ SendDone
    \/ StreamErrorSend
    \/ StoreError
    \/ OuterCatchSend
    \/ CloseWriter

Next ==
    \/ GET
    \/ OPTIONS
    \/ POST_Auth
    \/ POST_Open
    \/ SendConnected
    \/ AppendUser
    \/ SubmitQuestion
    \/ DrainEvent
    \/ DrainRaise
    \/ DrainEnd
    \/ SendDone
    \/ StreamErrorSend
    \/ StoreError
    \/ OuterCatchSend
    \/ CloseWriter
    \/ ClientDisconnect
    \/ NextRequest

Spec == Init /\ [][Next]_vars

\* Every awaited call of the turn eventually returns or fails
FairSpec == Init /\ [][Next]_vars /\ WF_vars(TurnStep)

----------------------------------------------------------------------------
(* What an observer of one turn sees *)

IsWrite(o) == o.op = "write"
IsOkWrite(o) == o.op = "write" /\ o.ok
IsClose(o) == o.op = "close"
IsTerminal(env) == env.type \in {"done", "error"}

\* the envelopes that reached the stream, in order
Wire ==
    LET okWrites == SelectSeq(writerOps, IsOkWrite)
    IN [i \in 1..Len(okWrites) |-> okWrites[i].env]

\* the envelopes writer.write was called with, in order
Attempted ==
    LET writes == SelectSeq(writerOps, IsWrite)
    IN [i \in 1..Len(writes) |-> writes[i].env]

Count(seq, P(_)) == Len(SelectSeq(seq, P))
IsConnectedEnv(env) == env.type = "connected"
IsErrorEnv(env) == env.type = "error"
IsTokenEnv(env) == env.type = "token"

NoWriteFailed == \A i \in 1..Len(writerOps) : IsWrite(writerOps[i]) => writerOps[i].ok
SomeWriteFailed == ~NoWriteFailed
Closed == writerOps # <<>> /\ IsClose(writerOps[Len(writerOps)])
TerminalAttempted == \E i \in 1..Len(Attempted) : IsTerminal(Attempted[i])

\* the turn opened the stream and its streaming task has ended
TurnOver == pc = "finished" /\ response.streaming
\* the agent (submitQuestion or its event iterator) threw
AgentFailed == thrown \in AgentErrors

\* the envelopes the drain loop hands to the writer for a sequence of events
RECURSIVE Relayed(_)
Relayed(events) ==
    IF events = <<>> THEN <<>>
    ELSE SelectSeq(Translate(Head(events)), Serializable) \o Relayed(Tail(events))

----------------------------------------------------------------------------
(* Claims *)

\* C1 as stated: at the end of every turn that opened the stream, whatever
\* failed, the written envelopes begin with exactly one connected and hold
\* exactly one terminal envelope, which is the last one.
C1_ExactlyOneTerminalAlways ==
    TurnOver =>
        /\ Len(Wire) >= 2
        /\ Wire[1] = Connected
        /\ Count(Wire, IsConnectedEnv) = 1
        /\ Count(Wire, IsTerminal) = 1
        /\ IsTerminal(Wire[Len(Wire)])

\* C1 (amended): connected is the first envelope handed to the writer and is
\* handed to it once; nothing is written after a terminal envelope (so at
\* most one terminal, done or error, never both, is written); and a turn in
\* which no write failed ends with connected first and exactly one terminal
\* envelope last.
C1_EnvelopeOrder ==
    /\ \A i \in 1..Len(Attempted) : IsConnectedEnv(Attempted[i]) <=> i = 1
    /\ \A i \in 1..Len(Wire) : IsTerminal(Wire[i]) => i = Len(Wire)
    /\ (TurnOver /\ NoWriteFailed) =>
          /\ Len(Wire) >= 2
          /\ Wire[1] = Connected
          /\ Count(Wire, IsTerminal) = 1
          /\ IsTerminal(Wire[Len(Wire)])

\* a turn with a failed append and a failing agent, all writes delivered
C1_Witness ==
    /\ TurnOver /\ NoWriteFailed
    /\ Len(Wire) >= 4
    /\ Wire[Len(Wire)].type = "error"
    /\ dbCalls # <<>> /\ ~dbCalls[1].ok

\* C2: when the agent's event stream raises after k events were relayed and
\* the client is still there, the client has seen exactly connected, the
\* envelopes of those events in order, then one error envelope carrying the
\* failure's message; the writer is then closed and done is never written.
C2_RaiseAfterTokens ==
    (TurnOver /\ AgentFailed /\ NoWriteFailed) =>
        /\ Wire = <<Connected>> \o Relayed(consumed)
                    \o <<ErrorEnv(errorMessage(thrown, "Stream processing failed"))>>
        /\ Attempted = Wire
        /\ Closed
        /\ Count(Attempted, IsTerminal) = 1

\* the stream raised after two token envelopes: connected, token, token, error
C2_Witness ==
    /\ TurnOver /\ AgentFailed
    /\ consumed = <<ChatEv(StrChunk("a")), ChatEv(ArrChunk(<<ObjPart("b"), ObjPart("z")>>))>>
    /\ Wire = <<Connected, Token("a"), Token("b"), ErrorEnv("agent failed")>>
    /\ Closed

\* C3: in a turn that opened the stream, close is called on the writer exactly
\* once, as the last call on the writer, on every path; nothing is written
\* after it, and a failing close does not escape the streaming task.
C3_CloseExactlyOnce ==
    /\ \A i \in 1..Len(writerOps) : IsClose(writerOps[i]) => i = Len(writerOps)
    /\ Closed => pc = "finished"
    /\ TurnOver => Closed /\ Count(writerOps, IsClose) = 1
    /\ ~escaped

\* a turn whose client went away: a write failed, and so did close
C3_Witness ==
    /\ TurnOver /\ Closed
    /\ ~writerOps[Len(writerOps)].ok
    /\ SomeWriteFailed
    /\ Len(consumed) >= 1

\* C4: under fair scheduling of the turn's steps (every awaited call returns
\* or fails and the event stream ends), every turn that opened the stream
\* eventually attempts a terminal envelope and closes the writer.
C4_EventuallyClosed == response.streaming ~> (TerminalAttempted /\ Closed)

\* a turn that drained two events and ended with done and a closed writer
C4_Witness ==
    /\ TurnOver /\ Closed /\ TerminalAttempted
    /\ Len(consumed) >= 2
    /\ Wire[Len(Wire)] = Done

\* The normalized text of a model-output chunk: the bare string itself, or the
\* text of the first part (its text field when structured), "" when there is none
NormalizedText(chunk) ==
    IF chunk.t = "string" THEN chunk.s
    ELSE IF chunk.t = "array" /\ Len(chunk.parts) > 0 /\ chunk.parts[1].v # NONE
         THEN chunk.parts[1].v
    ELSE ""

RECURSIVE NonEmptyTexts(_)
NonEmptyTexts(events) ==
    IF events = <<>> THEN <<>>
    ELSE LET ev == Head(events)
             text == IF ev.event = "on_chat_model_stream" /\ ev.chunk.present
                     THEN NormalizedText(ev.chunk) ELSE ""
         IN (IF text # "" THEN <<text>> ELSE <<>>) \o NonEmptyTexts(Tail(events))

WireTokens ==
    LET tokens == SelectSeq(Wire, IsTokenEnv)
    IN [i \in 1..Len(tokens) |-> tokens[i].data]

\* C5: when the event stream completes without failure, the token envelopes
\* written are, in order and in number, the normalized texts of the
\* model-output chunks whose normalized text is not empty.
C5_TokensAreNonEmptyTexts ==
    (TurnOver /\ thrown = NoError) => WireTokens = NonEmptyTexts(consumed)

\* C6: a request without caller identity gets the non-streaming 401 response;
\* in that turn no stream is opened, nothing is written, no persistence call
\* is made and the agent is not invoked.
C6_Unauthenticated401 ==
    userId = NONE =>
        /\ pc = "finished"
        /\ response = JsonResponse(401, "Unauthorized")
        /\ sink = "none"
        /\ writerOps = <<>>
        /\ dbCalls = <<>>
        /\ agentCalls = <<>>

\* an unauthenticated request that follows a turn which had opened a stream
C6_Witness == userId = NONE /\ pc = "finished" /\ cachedClient

\* unparsable, or an object whose messages is not a sequence
InvalidBody(body) == ~body.parsed \/ (body.isObject /\ ~body.messages.isArray)

\* C7, where the persistence client is at hand: an authenticated request whose
\* body is unparsable, or parses to an object that is not a turn (messages is
\* not a sequence), gets the non-streaming 400 response, and the stream is
\* never opened nor written to.
C7_InvalidBodyIs400 ==
    (pc \notin {"start", "parse"} /\ userId = "user1" /\ convexUrl = "valid"
        /\ InvalidBody(requestBody)) =>
        /\ response.status = 400
        /\ ~response.streaming
        /\ writerOps = <<>>

\* C8 as stated, for bodies that parse to an object: an authenticated request
\* always gets the 200 streaming response, whatever happens to the
\* persistence client.
C8_AlwaysStreams ==
    (pc \notin {"start", "parse"} /\ userId = "user1"
        /\ requestBody.parsed /\ requestBody.isObject) =>
        response = StreamResponse

\* C8 (amended): an authenticated request whose body parses to an object gets
\* the 200 streaming response when the persistence client can be obtained,
\* and the non-streaming 500 response, with no stream opened, when it cannot;
\* once the client is obtained no persistence call, failed or not, changes
\* the response; the non-stream responses are 400, 401 and 500.
C8_AppendNeverFatal ==
    /\ (pc \notin {"start", "parse"} /\ userId = "user1"
           /\ requestBody.parsed /\ requestBody.isObject) =>
          IF convexUrl = "valid"
          THEN response = StreamResponse
          ELSE /\ response = JsonResponse(500, "Failed to initialize database connection")
               /\ writerOps = <<>>
    /\ dbCalls # <<>> => response = StreamResponse
    /\ (method = "POST" /\ pc = "finished" /\ ~response.streaming) =>
          response.status \in {400, 401, 500}

\* both persistence calls of a turn failed; the response is the stream
C8_Witness ==
    /\ TurnOver
    /\ Len(dbCalls) = 2 /\ ~dbCalls[1].ok /\ ~dbCalls[2].ok
    /\ response = StreamResponse

\* C9: when the append of the user message fails, no exception is pending
\* after it, the agent is still invoked, a terminal envelope is still
\* attempted, and when nothing else fails the turn ends with done and no
\* error envelope.
C9_AppendFailureContinues ==
    (response.streaming /\ dbCalls # <<>> /\ ~dbCalls[1].ok) =>
        /\ pc = "submit" => thrown = NoError
        /\ (pc = "finished" /\ requestBody.messages.isArray) => Len(agentCalls) = 1
        /\ pc = "finished" => TerminalAttempted
        /\ (pc = "finished" /\ thrown = NoError) =>
              /\ Wire[Len(Wire)] = Done
              /\ Count(Attempted, IsErrorEnv) = 0

\* the append failed, the agent's events were drained and the turn ended with done
C9_Witness ==
    /\ TurnOver
    /\ dbCalls # <<>> /\ ~dbCalls[1].ok
    /\ Len(agentCalls) = 1
    /\ Len(consumed) >= 1 /\ Len(Wire) >= 3
    /\ Wire[Len(Wire)] = Done

\* C10: once a write has failed, the drain loop is over: the handler neither
\* awaits a further agent event nor goes on to the completion message.
C10_FailedWriteStopsDrain == SomeWriteFailed => pc \notin {"drain", "sendDone"}

\* C11, for a client that goes away mid-stream (connected has reached it): a
\* failed write is reported to no one: after it the handler makes no call on
\* the writer but close, and a turn that is handling the transport's failure
\* stores no assistant-role error record.
C11_TransportFailureSilent ==
    Wire # <<>> =>
        /\ \A i, j \in 1..Len(writerOps) :
              (i < j /\ IsWrite(writerOps[i]) /\ ~writerOps[i].ok) => IsClose(writerOps[j])
        /\ thrown = TransportClosed =>
              \A k \in 1..Len(dbCalls) : dbCalls[k].fn # "messages.store"

IsEmptyToken(env) == env.type = "token" /\ env.data = ""

\* C12: no token envelope is ever handed to the writer with empty text.
C12_NoEmptyToken == Count(Attempted, IsEmptyToken) = 0

\* one iteration of the drain loop: the next event is pulled and handled
DrainsOne == pc = "drain" /\ Len(consumed') = Len(consumed) + 1

\* a chunk whose content is a sequence of parts that is empty, or whose first
\* part has an empty or absent text
EmptyFirstPart(ev) ==
    /\ ev.event = "on_chat_model_stream"
    /\ ev.chunk.present /\ ev.chunk.t = "array"
    /\ \/ Len(ev.chunk.parts) = 0
       \/ ev.chunk.parts[1].v \in {NONE, ""}

\* C13: handling a chunk whose content is a sequence with an empty or absent
\* first text (or no part at all) makes no call on the writer, raises
\* nothing and leaves the handler in the drain loop.
C13_EmptyFirstPartSuppressed ==
    [][(DrainsOne /\ EmptyFirstPart(consumed'[Len(consumed')])) =>
          (writerOps' = writerOps /\ pc' = "drain" /\ thrown' = thrown)]_vars

\* a suppressed chunk, then a chunk that is relayed, then done
C13_Witness ==
    /\ TurnOver
    /\ consumed = <<ChatEv(ArrChunk(<<ObjPart("")>>)), ChatEv(StrChunk("a"))>>
    /\ Wire = <<Connected, Token("a"), Done>>

IsDrainEnv(env) == env.type \in {"token", "tool-start", "tool-end"}
\* the envelopes handed to the writer, and written, between connected and the end
DrainAttempted == SelectSeq(Attempted, IsDrainEnv)
DrainWritten == SelectSeq(Wire, IsDrainEnv)

\* the envelope type an agent event can be translated to ("" when none)
EnvelopeTypeOf(ev) ==
    IF ev = NullEvent THEN ""
    ELSE IF ev.event = "on_chat_model_stream" THEN "token"
    ELSE IF ev.event = "on_tool_start" THEN "tool-start"
    ELSE IF ev.event = "on_tool_end" THEN "tool-end"
    ELSE ""

\* a is b with some elements left out, order kept
RECURSIVE IsSubseq(_, _)
IsSubseq(a, b) ==
    IF a = <<>> THEN TRUE
    ELSE IF b = <<>> THEN FALSE
    ELSE IF Head(a) = Head(b) THEN IsSubseq(Tail(a), Tail(b))
    ELSE IsSubseq(a, Tail(b))

ProjectionHolds ==
    /\ DrainAttempted = Relayed(consumed)
    /\ IsSubseq(DrainWritten, DrainAttempted)
    /\ IsSubseq([i \in 1..Len(DrainAttempted) |-> DrainAttempted[i].type],
                [i \in 1..Len(consumed) |-> EnvelopeTypeOf(consumed[i])])

\* C15: the envelopes between connected and the terminal envelope are the
\* translations of the consumed events, one event each at most, in the
\* events' order; and handling a null event or an event of an unrecognized
\* kind makes no call on the writer and leaves the handler in the drain loop.
C15_FilteredProjection ==
    [][/\ ProjectionHolds'
       /\ (DrainsOne /\ EnvelopeTypeOf(consumed'[Len(consumed')]) = "") =>
             (writerOps' = writerOps /\ pc' = "drain" /\ thrown' = thrown)]_vars

\* a null event, then a tool-end event that is relayed, then done
C15_Witness ==
    /\ TurnOver
    /\ consumed = <<NullEvent, ToolEndEv(Output(NONE, "out1", TRUE))>>
    /\ Wire = <<Connected, ToolEnd("unknown", "out1"), Done>>

\* C16: the agent is invoked at most once per turn, with the request's chat
\* identifier and with the history in its order, each entry a human message
\* when its role is user and an assistant message otherwise, its content
\* unchanged, followed by the new message as one final human message.
C16_ForwardedConversation ==
    /\ Len(agentCalls) <= 1
    /\ \A c \in 1..Len(agentCalls) :
          LET sent == agentCalls[c].messages
              history == requestBody.messages.items
          IN /\ agentCalls[c].chatId = requestBody.chatId
             /\ Len(sent) = Len(history) + 1
             /\ \A i \in 1..Len(history) :
                   /\ sent[i].content = history[i].content
                   /\ sent[i].type = IF history[i].role = "user" THEN "human" ELSE "ai"
             /\ sent[Len(sent)] = [type |-> "human", content |-> requestBody.newMessage]

\* a history of two entries, the second neither user nor assistant
C16_Witness ==
    /\ Len(agentCalls) = 1
    /\ requestBody.messages.items = <<Msg("user", "q"), Msg("system", "s")>>
    /\ Len(agentCalls[1].messages) = 3

IsSend(c) == c.fn = "messages.send"
IsStore(c) == c.fn = "messages.store"

\* C18: a turn that opened the stream ends with exactly one append of the
\* inbound user message (chat id, new message) attempted; the append comes
\* after the connected write and before the agent is invoked.
C18_AppendExactlyOnce ==
    /\ TurnOver =>
          /\ Count(dbCalls, IsSend) = 1
          /\ dbCalls[1].chatId = requestBody.chatId
          /\ dbCalls[1].content = <<requestBody.newMessage>>
    /\ dbCalls # <<>> =>
          /\ IsSend(dbCalls[1])
          /\ Attempted # <<>> /\ Attempted[1] = Connected
    /\ agentCalls # <<>> => dbCalls # <<>>

\* the agent was invoked and the invocation, the drain loop or the done write failed
StreamFailed == agentCalls # <<>> /\ thrown # NoError

IsDoneEnv(env) == env.type = "done"

\* C20: once done has been written, the turn's persistence calls are the one
\* append of the inbound user message: nothing was stored with a role, and
\* nothing of the tool outputs or tokens relayed.
C20_SuccessPersistsOnlyUserMessage ==
    Count(Wire, IsDoneEnv) > 0 =>
        /\ thrown = NoError
        /\ Len(dbCalls) = 1
        /\ IsSend(dbCalls[1])
        /\ dbCalls[1].content = <<requestBody.newMessage>>
        /\ dbCalls[1].role = NONE

\* a tool output and a token were relayed, then done
C20_Witness ==
    /\ TurnOver
    /\ consumed = <<ToolEndEv(Output("search", "out2", TRUE)), ChatEv(StrChunk("a"))>>
    /\ Wire = <<Connected, ToolEnd("search", "out2"), Token("a"), Done>>
    /\ Len(dbCalls) = 1

\* C17 as stated: every request whose method is not POST is answered with
\* 405 and no stream.
C17_OtherMethods405 ==
    (method \notin {"<none>", "POST"} /\ pc = "finished") =>
        (response.status = 405 /\ ~response.streaming)

\* C17, amended: GET is answered with 405 "Method not allowed", OPTIONS with
\* an empty 200; neither opens a stream, authenticates, or calls the
\* persistence client or the agent.
C17_GetIs405OptionsIs200 ==
    method \in {"GET", "OPTIONS"} =>
        /\ pc = "finished"
        /\ response = IF method = "GET"
                      THEN [status |-> 405, streaming |-> FALSE, error |-> "Method not allowed"]
                      ELSE [status |-> 200, streaming |-> FALSE, error |-> NONE]
        /\ sink = "none"
        /\ userId = "<unset>"
        /\ writerOps = <<>> /\ dbCalls = <<>> /\ agentCalls = <<>>

\* a preflight request has been answered, after an earlier POST turn
C17_Witness == method = "OPTIONS" /\ pc = "finished" /\ response.status = 200 /\ cachedClient

\* the agent started a tool named n and, later, ended a tool named n
StartedThenEnded(n) ==
    \E i, j \in 1..Len(consumed) :
        /\ i < j
        /\ consumed[i].event = "on_tool_start" /\ consumed[i].name = n
        /\ consumed[j].event = "on_tool_end" /\ consumed[j].output.name = n

\* C21: when the agent's started event of a tool precedes its ended event,
\* a tool-end envelope written for that tool has the tool-start envelope of
\* the same tool written before it.
C21_ToolEndAfterToolStart ==
    \A q \in 1..Len(Wire) :
        (Wire[q].type = "tool-end" /\ StartedThenEnded(Wire[q].tool)) =>
            \E p \in 1..(q - 1) :
                Wire[p].type = "tool-start" /\ Wire[p].tool = Wire[q].tool

\* the tool-end envelope of an ended event: its output, and the output's name or "unknown"
ToolEndOf(ev) ==
    Envelope("tool-end",
             IF ev.output.name \in {NONE, ""} THEN "unknown" ELSE ev.output.name,
             ev.output.v)

\* C22 as stated: handling a tool-invocation-ended event hands the writer a
\* tool-end envelope exactly when the event has an output payload.
C22_ToolEndIffOutput ==
    [][LET ev == consumed'[Len(consumed')]
       IN (DrainsOne /\ ev.event = "on_tool_end") =>
             writerOps' = IF ev.output.present
                          THEN Append(writerOps, [op |-> "write", env |-> ToolEndOf(ev),
                                                  ok |-> (sink = "open")])
                          ELSE writerOps]_vars

\* C22, amended: no tool-end envelope without an output payload; with one,
\* exactly one tool-end envelope is handed to the writer, carrying the output
\* and the resolved name or "unknown", provided the tool message can be built
\* and the output can be serialized; otherwise nothing is.
C22_ToolEndIffUsableOutput ==
    [][LET ev == consumed'[Len(consumed')]
       IN (DrainsOne /\ ev.event = "on_tool_end") =>
             writerOps' = IF ev.output.present /\ ev.output.ctorOk /\ ev.output.v # CIRC
                          THEN Append(writerOps, [op |-> "write", env |-> ToolEndOf(ev),
                                                  ok |-> (sink = "open")])
                          ELSE writerOps]_vars

\* an output on which the tool message cannot be built, then a named output that is relayed
C22_Witness ==
    /\ TurnOver
    /\ consumed = <<ToolEndEv(Output(NONE, "out3", FALSE)),
                    ToolEndEv(Output("search", "out2", TRUE))>>
    /\ Wire = <<Connected, ToolEnd("search", "out2"), Done>>

\* an event whose envelope cannot be serialized: a started tool with a
\* circular input, or an ended tool with a circular output
Unserializable(ev) ==
    \/ ev.event = "on_tool_start" /\ ev.name \notin {NONE, ""} /\ ev.input = CIRC
    \/ ev.event = "on_tool_end" /\ ev.output.present /\ ev.output.ctorOk
          /\ ev.output.v = CIRC

\* C23: an envelope that cannot be serialized never reaches the writer, and
\* handling the event it was built for makes no writer call, raises nothing
\* and leaves the handler in the drain loop.
C23_SerializationFailureDropped ==
    [][/\ \A i \in 1..Len(writerOps') : writerOps'[i].env.data # CIRC
       /\ (DrainsOne /\ Unserializable(consumed'[Len(consumed')])) =>
             (writerOps' = writerOps /\ pc' = "drain" /\ thrown' = thrown)]_vars

\* a tool-start whose input cannot be serialized is dropped; a token follows, then done
C23_Witness ==
    /\ TurnOver
    /\ consumed = <<ToolStartEv("search", CIRC), ChatEv(StrChunk("a"))>>
    /\ Wire = <<Connected, Token("a"), Done>>
    /\ thrown = NoError

\* C24: handling a tool-invocation-ended event never leaves the drain loop
\* and raises nothing, whether the tool message cannot be built or the
\* tool-end write is rejected; the only writer call it can make is the write
\* of its tool-end envelope.
C24_ToolEndFailureSwallowed ==
    [][LET ev == consumed'[Len(consumed')]
       IN (DrainsOne /\ ev.event = "on_tool_end") =>
             /\ pc' = "drain"
             /\ thrown' = thrown
             /\ \/ writerOps' = writerOps
                \/ /\ Len(writerOps') = Len(writerOps) + 1
                   /\ SubSeq(writerOps', 1, Len(writerOps)) = writerOps
                   /\ writerOps'[Len(writerOps')].env.type = "tool-end"]_vars

\* a tool-end write rejected by a client that is gone, then a tool message
\* that cannot be built: the handler is still draining, nothing was thrown
C24_Witness ==
    /\ pc = "drain"
    /\ thrown = NoError
    /\ consumed = <<ToolEndEv(Output(NONE, "out1", TRUE)),
                    ToolEndEv(Output(NONE, "out3", FALSE))>>
    /\ \E i \in 1..Len(writerOps) :
          /\ IsWrite(writerOps[i])
          /\ writerOps[i].env = ToolEnd("unknown", "out1")
          /\ ~writerOps[i].ok
    /\ Count(Attempted, IsErrorEnv) = 0

====
